---- MODULE Spec2Model ----
(***************************************************************************)
(* Model of the customers table: the usePaginatedTable hook (URL codec,    *)
(* debounce, latest-wins fetch), makePageButtons, and the mock             *)
(* /api/customers endpoint.                                                *)
(*                                                                         *)
(* JavaScript strings are sequences of one-character strings, so that      *)
(* parseInt, String, split(':'), the filters[...] pattern, toLowerCase,    *)
(* includes and the string comparisons are computed, not assumed.          *)
(* An optional value (null / undefined) is the empty sequence None, a      *)
(* present value v is the one-element sequence Some(v).                    *)
(***************************************************************************)
EXTENDS Integers, Sequences, FiniteSets, TLC

VARIABLES
    \* ---- browser and hook (usePaginatedTable) ----
    url,            \* address-bar query string: sequence of <<key, value>> pairs
    mounted,        \* is the component mounted
    page, pageSize, query, sort, filters,   \* useState cells, lines 72-76
    rows, total, loading, error,            \* useState cells, lines 78-81
    debouncedQuery, \* useDebounce's state cell v
    timer,          \* pending setTimeout of useDebounce: None or Some(value)
    latest,         \* latest.current
    reqs,           \* fetches in flight: id :> [params, aborted, byEffect]
    cleanup,        \* the effect's cleanup closure: None or Some(id whose ac it aborts)
    last,           \* what the last step did (observation only)
    \* ---- pure-function harnesses ----
    codec,          \* SpecCodec: a state and its decode(encode(.))
    pager,          \* SpecPager: arguments and result of makePageButtons
    api             \* SpecApi: a request and the handler's response

hookVars == <<url, mounted, page, pageSize, query, sort, filters, rows, total,
              loading, error, debouncedQuery, timer, latest, reqs, cleanup, last>>
vars == <<hookVars, codec, pager, api>>

-----------------------------------------------------------------------------
(* Optional values and strings *)

None == <<>>
Some(v) == <<v>>
IsSome(o) == Len(o) = 1
Get(o) == o[1]

Max(a, b) == IF a >= b THEN a ELSE b
Min(a, b) == IF a <= b THEN a ELSE b

Digits == <<"0", "1", "2", "3", "4", "5", "6", "7", "8", "9">>
IsDigit(c) == c \in {Digits[i] : i \in 1..10}
DigitVal(c) == (CHOOSE i \in 1..10 : Digits[i] = c) - 1

\* The characters of the model in UTF-16 code-unit order (the order of < and >
\* on JavaScript strings).
Chars == <<" ", "-", ".", "0", "1", "2", "3", "4", "5", "6", "7", "8", "9", ":",
           "@", "A", "B", "C", "D", "E", "F", "L", "N", "R", "S", "T", "U", "[", "]", "_",
           "a", "b", "c", "d", "e", "f", "g", "h", "i", "k", "l", "m", "n",
           "o", "p", "r", "s", "t", "u", "v", "x", "y", "z">>
CharSet == {Chars[i] : i \in 1..Len(Chars)}
Code == [c \in CharSet |-> CHOOSE i \in 1..Len(Chars) : Chars[i] = c]

Upper == <<"A", "B", "C", "D", "E", "F", "L", "N", "R", "S", "T", "U">>
Lower == <<"a", "b", "c", "d", "e", "f", "l", "n", "r", "s", "t", "u">>
LowerChar == [c \in CharSet |->
                 IF \E i \in 1..Len(Upper) : Upper[i] = c
                 THEN Lower[CHOOSE i \in 1..Len(Upper) : Upper[i] = c]
                 ELSE c]
\* String.prototype.toLowerCase
toLowerCase(s) == [i \in 1..Len(s) |-> LowerChar[s[i]]]

\* a < b on strings: lexicographic by code unit, a proper prefix is smaller
RECURSIVE StrLess(_, _)
StrLess(a, b) ==
    IF b = <<>> THEN FALSE
    ELSE IF a = <<>> THEN TRUE
    ELSE IF Code[a[1]] < Code[b[1]] THEN TRUE
    ELSE IF Code[a[1]] > Code[b[1]] THEN FALSE
    ELSE StrLess(Tail(a), Tail(b))

\* String.prototype.includes
includes(s, q) ==
    \E i \in 0..(Len(s) - Len(q)) : SubSeq(s, i + 1, i + Len(q)) = q

\* String(n) for an integer n
RECURSIVE NatStr(_)
NatStr(n) == IF n < 10 THEN <<Digits[n + 1]>>
             ELSE NatStr(n \div 10) \o <<Digits[(n % 10) + 1]>>
String(n) == IF n < 0 THEN <<"-">> \o NatStr(-n) ELSE NatStr(n)

\* parseInt(s): optional sign, then the longest prefix of decimal digits; NaN when
\* there is none. A number is [nan |-> BOOLEAN, val |-> Int].
NaN == [nan |-> TRUE, val |-> 0]
Num(n) == [nan |-> FALSE, val |-> n]
RECURSIVE DigitsPrefix(_)
DigitsPrefix(s) ==
    IF s # <<>> /\ IsDigit(s[1]) THEN <<s[1]>> \o DigitsPrefix(Tail(s)) ELSE <<>>
RECURSIVE DigitsVal(_, _)
DigitsVal(ds, acc) ==
    IF ds = <<>> THEN acc ELSE DigitsVal(Tail(ds), acc * 10 + DigitVal(ds[1]))
RECURSIVE TrimStart(_)
TrimStart(s) == IF s # <<>> /\ s[1] = " " THEN TrimStart(Tail(s)) ELSE s
parseInt(str) ==
    LET s    == TrimStart(str)
        neg  == s # <<>> /\ s[1] = "-"
        body == IF neg THEN Tail(s) ELSE s
        ds   == DigitsPrefix(body)
    IN  IF ds = <<>> THEN NaN
        ELSE Num(IF neg THEN -DigitsVal(ds, 0) ELSE DigitsVal(ds, 0))
\* x || y on numbers: NaN and 0 are falsy
NumOr(x, y) == IF x.nan \/ x.val = 0 THEN y ELSE x.val

\* String.prototype.split(':')
RECURSIVE Split(_, _)
Split(s, cur) ==
    IF s = <<>> THEN <<cur>>
    ELSE IF s[1] = ":" THEN <<cur>> \o Split(Tail(s), <<>>)
    ELSE Split(Tail(s), Append(cur, s[1]))
split(s) == Split(s, <<>>)
\* a[i] of a JavaScript array, 0-based: undefined (None) past the end
At(a, i) == IF i + 1 <= Len(a) THEN Some(a[i + 1]) ELSE None

\* key.match(/^filters\[(.+)\]$/): None, or Some(the captured name)
FiltersPrefix == <<"f", "i", "l", "t", "e", "r", "s", "[">>
matchFilterKey(key) ==
    IF /\ Len(key) >= Len(FiltersPrefix) + 2
       /\ SubSeq(key, 1, Len(FiltersPrefix)) = FiltersPrefix
       /\ key[Len(key)] = "]"
    THEN Some(SubSeq(key, Len(FiltersPrefix) + 1, Len(key) - 1))
    ELSE None

-----------------------------------------------------------------------------
(* String literals of the program *)

S_page      == <<"p", "a", "g", "e">>
S_pageSize  == <<"p", "a", "g", "e", "S", "i", "z", "e">>
S_q         == <<"q">>
S_sort      == <<"s", "o", "r", "t">>
S_asc       == <<"a", "s", "c">>
S_desc      == <<"d", "e", "s", "c">>
S_name      == <<"n", "a", "m", "e">>
S_email     == <<"e", "m", "a", "i", "l">>
S_company   == <<"c", "o", "m", "p", "a", "n", "y">>
S_status    == <<"s", "t", "a", "t", "u", "s">>
S_createdAt == <<"c", "r", "e", "a", "t", "e", "d", "A", "t">>
S_active    == <<"a", "c", "t", "i", "v", "e">>
S_trial     == <<"t", "r", "i", "a", "l">>
S_churned   == <<"c", "h", "u", "r", "n", "e", "d">>
S_Analytica == <<"A", "n", "a", "l", "y", "t", "i", "c", "a">>
S_ByteForge == <<"B", "y", "t", "e", "F", "o", "r", "g", "e">>
S_CloudNine == <<"C", "l", "o", "u", "d", "N", "i", "n", "e">>
S_DeltaLabs == <<"D", "e", "l", "t", "a", " ", "L", "a", "b", "s">>
S_Epsilon   == <<"E", "p", "s", "i", "l", "o", "n">>

-----------------------------------------------------------------------------
(* URLSearchParams and plain objects: sequences of <<key, value>> pairs in    *)
(* insertion order.                                                          *)

\* URLSearchParams.get: the first value of the key, or null
ParamsGet(p, k) ==
    IF \E i \in 1..Len(p) : p[i][1] = k
    THEN Some(p[CHOOSE i \in 1..Len(p) : p[i][1] = k /\ \A j \in 1..(i - 1) : p[j][1] # k][2])
    ELSE None
\* URLSearchParams.set / obj[k] = v: replace the entry of the key, or append one
ParamsSet(p, k, v) ==
    IF \E i \in 1..Len(p) : p[i][1] = k
    THEN [i \in 1..Len(p) |-> IF p[i][1] = k THEN <<k, v>> ELSE p[i]]
    ELSE Append(p, <<k, v>>)
RECURSIVE SetAll(_, _)
SetAll(p, kvs) ==
    IF kvs = <<>> THEN p ELSE SetAll(ParamsSet(p, kvs[1][1], kvs[1][2]), Tail(kvs))

\* "filters[" + k + "]"
FilterKey(k) == FiltersPrefix \o k \o <<"]">>

\* A table state (type State)
St(pg, ps, qu, so, fl) ==
    [page |-> pg, pageSize |-> ps, query |-> qu, sort |-> so, filters |-> fl]
\* A sort (type Sort): None, or Some of a key and a direction
SortOf(k, d) == Some([key |-> k, dir |-> d])

\* The filters defaultParams writes: v != null && v !== ''
WrittenFilters(f) ==
    SelectSeq(f, LAMBDA e : IsSome(e[2]) /\ Get(e[2]) # <<>>)
defaultParams(s) ==
    LET p1 == <<<<S_page, String(s.page)>>, <<S_pageSize, String(s.pageSize)>>>>
        p2 == IF s.query # <<>> THEN ParamsSet(p1, S_q, s.query) ELSE p1
        p3 == IF IsSome(s.sort)
              THEN ParamsSet(p2, S_sort, Get(s.sort).key \o <<":">> \o Get(s.sort).dir)
              ELSE p2
        wf == WrittenFilters(s.filters)
    IN  SetAll(p3, [i \in 1..Len(wf) |-> <<FilterKey(wf[i][1]), Get(wf[i][2])>>])

\* q.get(k) || ''
GetOrEmpty(q, k) == IF IsSome(ParamsGet(q, k)) THEN Get(ParamsGet(q, k)) ELSE <<>>
\* the entries of the query whose key matches filters[...], as object assignments
RECURSIVE UrlFilters(_, _)
UrlFilters(q, f) ==
    IF q = <<>> THEN f
    ELSE LET m == matchFilterKey(q[1][1])
         IN  UrlFilters(Tail(q), IF IsSome(m) THEN ParamsSet(f, Get(m), Some(q[1][2])) ELSE f)
readFromUrlKeepsDir(q, fallback) ==
    LET sortParam == GetOrEmpty(q, S_sort)
        parts     == split(sortParam)
        d         == At(parts, 1)
    IN  St(NumOr(parseInt(GetOrEmpty(q, S_page)), fallback.page),
           NumOr(parseInt(GetOrEmpty(q, S_pageSize)), fallback.pageSize),
           IF IsSome(ParamsGet(q, S_q)) THEN Get(ParamsGet(q, S_q)) ELSE fallback.query,
           IF sortParam # <<>>
           THEN SortOf(parts[1], IF IsSome(d) THEN Get(d) ELSE <<>>)
           ELSE fallback.sort,
           UrlFilters(q, fallback.filters))
readFromUrl(q, fallback) ==
    LET sortParam == GetOrEmpty(q, S_sort)
        parts     == split(sortParam)
        d         == At(parts, 1)
    IN  St(NumOr(parseInt(GetOrEmpty(q, S_page)), fallback.page),
           NumOr(parseInt(GetOrEmpty(q, S_pageSize)), fallback.pageSize),
           IF IsSome(ParamsGet(q, S_q)) THEN Get(ParamsGet(q, S_q)) ELSE fallback.query,
           IF sortParam # <<>>
           THEN SortOf(parts[1], IF IsSome(d) /\ Get(d) # <<>> THEN Get(d) ELSE S_asc)
           ELSE fallback.sort,
           UrlFilters(q, fallback.filters))
writeToUrlAlwaysQ(s) == ParamsSet(defaultParams(s), S_q, s.query)
\* writeToUrl: history.replaceState with the encoded state
writeToUrl(s) == defaultParams(s)

-----------------------------------------------------------------------------
(* makePageButtons (lines 226-244); the marker '…' is Ellipsis *)

Ellipsis == 0
\* add(n): push unless the last entry is n
add(out, n) == IF out # <<>> /\ out[Len(out)] = n THEN out ELSE Append(out, n)
RECURSIVE AddRange(_, _, _)
AddRange(out, i, right) ==
    IF i > right THEN out ELSE AddRange(add(out, i), i + 1, right)
makePageButtonsNoDedup(curr, tot, max) ==
    IF tot <= max THEN [i \in 1..tot |-> i]
    ELSE LET left  == Max(1, curr - 1)
             right == Min(tot, curr + 1)
             o1 == <<1>>
             o2 == IF left > 2 THEN Append(o1, Ellipsis) ELSE o1
             o3 == o2 \o [i \in 1..(right - left + 1) |-> left + i - 1]
             o4 == IF right < tot - 1 THEN Append(o3, Ellipsis) ELSE o3
         IN  Append(o4, tot)
makePageButtons(curr, tot, max) ==
    IF tot <= max THEN [i \in 1..tot |-> i]
    ELSE LET left  == Max(1, curr - 1)
             right == Min(tot, curr + 1)
             o1 == add(<<>>, 1)
             o2 == IF left > 2 THEN add(o1, Ellipsis) ELSE o1
             o3 == AddRange(o2, left, right)
             o4 == IF right < tot - 1 THEN add(o3, Ellipsis) ELSE o3
         IN  add(o4, tot)

-----------------------------------------------------------------------------
(* The mock endpoint: pages/api/customers.ts *)

N == 500
Today == 1000       \* Date.now() when the module is loaded, in days
COMPANIES == <<S_Analytica, S_ByteForge, S_CloudNine, S_DeltaLabs, S_Epsilon>>
STATUSES == <<S_active, S_trial, S_churned>>

\* String.prototype.padStart(n, '0')
RECURSIVE padStart(_, _)
padStart(s, n) == IF Len(s) >= n THEN s ELSE padStart(<<"0">> \o s, n)

\* Row i (0-based) of ROWS (lines 20-27). createdAt is a toISOString() text: all
\* rows share one fixed-width format, one day apart, so it is modelled by the
\* zero-padded day number, which orders the same way.
MakeRow(i) ==
    [id        |-> <<"c", "_">> \o padStart(String(i + 1), 3),
     name      |-> <<"U", "s", "e", "r", " ">> \o String(i + 1),
     email     |-> <<"u", "s", "e", "r">> \o String(i + 1)
                   \o <<"@", "e", "x", "a", "m", "p", "l", "e", ".", "c", "o", "m">>,
     company   |-> COMPANIES[(i % Len(COMPANIES)) + 1],
     status    |-> STATUSES[(i % 3) + 1],
     createdAt |-> padStart(String(Today - i), 4)]
ROWS == [k \in 1..N |-> MakeRow(k - 1)]

\* A request's query object is a sequence of <<key, values>>: the values of a
\* key are the texts given for it in order (one: a string; several: an array).
\* qval(x, fallback): the string, or the first of the array, or the fallback
ReqGet(rq, k) ==
    IF \E i \in 1..Len(rq) : rq[i][1] = k
    THEN rq[CHOOSE i \in 1..Len(rq) : rq[i][1] = k][2]
    ELSE <<>>
qval(x, fallback) == IF x = <<>> THEN fallback ELSE x[1]

\* Math.max(1, x) and Math.min(100, x) on numbers: NaN stays NaN
MathMax1(x) == IF x.nan THEN NaN ELSE Num(Max(1, x.val))
MathMin100(x) == IF x.nan THEN NaN ELSE Num(Min(100, x.val))

\* filters[...] keys of the query (lines 43-47)
RECURSIVE ReqFilters(_, _)
ReqFilters(rq, f) ==
    IF rq = <<>> THEN f
    ELSE LET m == matchFilterKey(rq[1][1])
         IN  ReqFilters(Tail(rq),
                        IF IsSome(m) THEN ParamsSet(f, Get(m), qval(rq[1][2], <<>>)) ELSE f)
\* filters.name: the value, or undefined (falsy like '')
FilterOf(f, name) == IF IsSome(ParamsGet(f, name)) THEN Get(ParamsGet(f, name)) ELSE <<>>

\* a row's property by name: undefined (None) for a name that is no column
Field(r, f) ==
    CASE f = S_name -> Some(r.name)
      [] f = S_email -> Some(r.email)
      [] f = S_company -> Some(r.company)
      [] f = S_status -> Some(r.status)
      [] f = S_createdAt -> Some(r.createdAt)
      [] f = <<"i", "d">> -> Some(r.id)
      [] OTHER -> None

\* a > b and a < b of the comparator: false when either side is undefined
Gt(a, b) == IsSome(a) /\ IsSome(b) /\ StrLess(Get(b), Get(a))
Lt(a, b) == IsSome(a) /\ IsSome(b) /\ StrLess(Get(a), Get(b))
\* the comparator of lines 77-78 on rows (positions in ROWS) i and j
Compare(i, j, field, sign) ==
    (IF Gt(Field(ROWS[i], field), Field(ROWS[j], field)) THEN 1
     ELSE IF Lt(Field(ROWS[i], field), Field(ROWS[j], field)) THEN -1
     ELSE 0) * sign

\* Array.prototype.sort(compare) is a stable sort. It is computed as a merge
\* sort whose merge splits on the middle of the left run, so that no recursion
\* is deeper than the logarithm of the length.
\* the number of leading entries y of the sorted run b with compare(y, x) < 0
RECURSIVE CountBefore(_, _, _, _, _, _)
CountBefore(b, x, lo, hi, field, sign) ==
    IF lo >= hi THEN lo
    ELSE LET mid == (lo + hi) \div 2
         IN  IF Compare(b[mid + 1], x, field, sign) < 0
             THEN CountBefore(b, x, mid + 1, hi, field, sign)
             ELSE CountBefore(b, x, lo, mid, field, sign)
RECURSIVE Merge(_, _, _, _)
Merge(a, b, field, sign) ==
    IF a = <<>> THEN b
    ELSE IF b = <<>> THEN a
    ELSE LET h == (Len(a) + 1) \div 2
             c == CountBefore(b, a[h], 0, Len(b), field, sign)
         IN  Merge(SubSeq(a, 1, h - 1), SubSeq(b, 1, c), field, sign)
             \o <<a[h]>>
             \o Merge(SubSeq(a, h + 1, Len(a)), SubSeq(b, c + 1, Len(b)), field, sign)
RECURSIVE SortBy(_, _, _)
SortBy(data, field, sign) ==
    IF Len(data) <= 1 THEN data
    ELSE LET h == Len(data) \div 2
         IN  Merge(SortBy(SubSeq(data, 1, h), field, sign),
                   SortBy(SubSeq(data, h + 1, Len(data)), field, sign),
                   field, sign)

\* The search predicate of lines 54-59 (q already lower-cased)
SearchHit(r, q) ==
    \/ includes(toLowerCase(r.name), q)
    \/ includes(toLowerCase(r.email), q)
    \/ includes(toLowerCase(r.company), q)

\* Array.prototype.slice(start, end) with numbers that may be NaN (NaN acts as 0)
Slice(data, start, end) ==
    LET s == IF start.nan THEN 0 ELSE Min(Max(start.val, 0), Len(data))
        e == IF end.nan THEN 0 ELSE Min(Max(end.val, 0), Len(data))
    IN  SubSeq(data, s + 1, e)
\* a * b and a + b and a - 1 on numbers
NumMul(a, b) == IF a.nan \/ b.nan THEN NaN ELSE Num(a.val * b.val)
NumAdd(a, b) == IF a.nan \/ b.nan THEN NaN ELSE Num(a.val + b.val)

\* The stages of the handler; data is a sequence of positions in ROWS
Searched(q) ==
    IF q # <<>> THEN SelectSeq([k \in 1..N |-> k], LAMBDA k : SearchHit(ROWS[k], q))
    ELSE [k \in 1..N |-> k]
Filtered(data, f) ==
    LET d1 == IF FilterOf(f, S_status) # <<>>
              THEN SelectSeq(data, LAMBDA k : ROWS[k].status = FilterOf(f, S_status))
              ELSE data
        d2 == IF FilterOf(f, S_company) # <<>>
              THEN SelectSeq(d1, LAMBDA k : ROWS[k].company = FilterOf(f, S_company))
              ELSE d1
        d3 == IF FilterOf(f, S_createdAt \o <<"F", "r", "o", "m">>) # <<>>
              THEN SelectSeq(d2, LAMBDA k :
                     ~StrLess(ROWS[k].createdAt, FilterOf(f, S_createdAt \o <<"F", "r", "o", "m">>)))
              ELSE d2
    IN  IF FilterOf(f, S_createdAt \o <<"T", "o">>) # <<>>
        THEN SelectSeq(d3, LAMBDA k :
               ~StrLess(FilterOf(f, S_createdAt \o <<"T", "o">>), ROWS[k].createdAt))
        ELSE d3
SortedIgnoresDir(data, sortText) ==
    IF sortText # <<>> THEN SortBy(data, split(sortText)[1], 1) ELSE data
Sorted(data, sortText) ==
    IF sortText # <<>>
    THEN LET parts == split(sortText)
         IN  SortBy(data, parts[1], IF At(parts, 1) = Some(S_desc) THEN -1 ELSE 1)
    ELSE data

handlerTotalOfPage(rq) ==
    LET pg    == MathMax1(parseInt(qval(ReqGet(rq, S_page), <<"1">>)))
        ps    == MathMin100(MathMax1(parseInt(qval(ReqGet(rq, S_pageSize), <<"1", "0">>))))
        q     == toLowerCase(qval(ReqGet(rq, S_q), <<>>))
        so    == qval(ReqGet(rq, S_sort), <<>>)
        f     == ReqFilters(rq, <<>>)
        data  == Sorted(Filtered(Searched(q), f), so)
        start == NumMul(NumAdd(pg, Num(-1)), ps)
    IN  [items    |-> Slice(data, start, NumAdd(start, ps)),
         total    |-> Len(Slice(data, start, NumAdd(start, ps))),
         page     |-> pg,
         pageSize |-> ps]
\* handler (lines 29-87): the JSON body it sends
handler(rq) ==
    LET pg    == MathMax1(parseInt(qval(ReqGet(rq, S_page), <<"1">>)))
        ps    == MathMin100(MathMax1(parseInt(qval(ReqGet(rq, S_pageSize), <<"1", "0">>))))
        q     == toLowerCase(qval(ReqGet(rq, S_q), <<>>))
        so    == qval(ReqGet(rq, S_sort), <<>>)
        f     == ReqFilters(rq, <<>>)
        data  == Sorted(Filtered(Searched(q), f), so)
        start == NumMul(NumAdd(pg, Num(-1)), ps)
    IN  [items    |-> Slice(data, start, NumAdd(start, ps)),
         total    |-> Len(data),
         page     |-> pg,
         pageSize |-> ps]

-----------------------------------------------------------------------------
(* The hook: usePaginatedTable as CustomersTable configures it *)

MaxRequests == 2        \* bound on latest.current

\* The server the hook talks to: any (api = Idle: a response may carry any of
\* Totals), or the mock endpoint /api/customers with its fixed rows, where one
\* more request is followed
Idle == "-"
MockEndpoint == "customers"
RequestBound == IF api = MockEndpoint THEN MaxRequests + 1 ELSE MaxRequests

\* CustomersTable's configuration with the hook's defaults (lines 46-56)
Config == St(1, 10, <<>>, SortOf(S_createdAt, S_desc), <<>>)

\* The values the controls can pass
PageSizeOptions == {10, 20, 50}
QueryTexts      == {<<>>, <<"a">>}
CompanyOptions  == {<<>>, S_Analytica}
Columns         == {S_name}
\* The totals the server may report
Totals          == {0, 35}

\* Address-bar query strings the page may be opened with
UrlWith(k, v) == <<<<k, v>>>>
InitialUrls ==
    {<<>>}
    \cup {UrlWith(S_page, t) : t \in {<<"2">>, <<"0">>, <<"-", "3">>, <<"a", "b">>, <<>>}}
    \cup {UrlWith(S_pageSize, t) : t \in {<<"2", "0">>, <<"-", "5">>, <<"x">>}}
    \cup {<<<<S_q, <<"a">>>>, <<S_sort, S_name>>, <<FilterKey(S_status), S_active>>,
            <<FilterKey(S_company), <<>>>>, <<<<"u">>, <<"1">>>>>>}

State == St(page, pageSize, query, sort, filters)

\* What `last` records: the settling of a request (its id, its outcome and the
\* total of its response) and the operations that reset the page (and whether
\* the page was past the first).
Event(op, id, outcome, tot, paged) ==
    [op |-> op, id |-> id, outcome |-> outcome, total |-> tot, paged |-> paged]
NoEvent == Event("", 0, "", 0, FALSE)
ResetOps == {"setQuery", "setFilter", "clearFilters"}

\* JSON.stringify(filters): undefined values are left out, key order is kept
JsonFilters(f) == SelectSeq(f, LAMBDA e : IsSome(e[2]))

totalPages == Max(1, (total + pageSize - 1) \div pageSize)

IssueFetchKeepsError(s, dq, rq, byEffect) ==
    /\ latest < RequestBound
    /\ latest' = latest + 1
    /\ loading' = TRUE
    /\ error' = error
    /\ reqs' = (latest + 1) :> [params  |-> defaultParams([s EXCEPT !.query = dq]),
                                aborted |-> FALSE] @@ rq
    /\ cleanup' = IF byEffect THEN Some(latest + 1) ELSE cleanup
\* The fetch a call of refresh() issues from the render with state s and
\* debounced query dq (lines 94-103); byEffect: the effect keeps its abort
IssueFetch(s, dq, rq, byEffect) ==
    /\ latest < RequestBound
    /\ latest' = latest + 1
    /\ loading' = TRUE
    /\ error' = None
    /\ reqs' = (latest + 1) :> [params  |-> defaultParams([s EXCEPT !.query = dq]),
                                aborted |-> FALSE] @@ rq
    /\ cleanup' = IF byEffect THEN Some(latest + 1) ELSE cleanup

\* ac.abort() of the effect's previous run (line 122)
RunCleanup ==
    IF IsSome(cleanup) /\ Get(cleanup) \in DOMAIN reqs
    THEN [reqs EXCEPT ![Get(cleanup)].aborted = TRUE]
    ELSE reqs

\* One event handler's state updates, committed in one render, with the effects
\* the render runs: debounce timer (lines 189-192), URL sync (lines 87-89) and,
\* when a dependency of refresh changed (line 124), the fetch effect (126-128).
DepsChangedIgnoresFilters(s, sortIsNew) ==
    \/ s.page # page
    \/ s.pageSize # pageSize
    \/ sortIsNew
\* The dependencies of refresh that an event handler can change (line 124)
DepsChanged(s, sortIsNew) ==
    \/ s.page # page
    \/ s.pageSize # pageSize
    \/ sortIsNew
    \/ JsonFilters(s.filters) # JsonFilters(filters)

ArmKeepsPending(q) ==
    IF q # query /\ timer = None THEN Some(q) ELSE timer
\* useDebounce's effect on a new value: clearTimeout of the pending timer and
\* a new setTimeout (lines 189-192)
Arm(q) == IF q # query THEN Some(q) ELSE timer

Commit(s, sortIsNew, op) ==
    LET refetch == DepsChanged(s, sortIsNew)
    IN  /\ page' = s.page
        /\ pageSize' = s.pageSize
        /\ query' = s.query
        /\ sort' = s.sort
        /\ filters' = s.filters
        /\ url' = writeToUrl(s)
        /\ timer' = Arm(s.query)
        /\ IF refetch
           THEN IssueFetch(s, debouncedQuery, RunCleanup, TRUE)
           ELSE UNCHANGED <<latest, loading, error, reqs, cleanup>>
        /\ last' = IF op \in ResetOps THEN Event(op, 0, "", 0, page > 1) ELSE NoEvent
        /\ UNCHANGED <<mounted, rows, total, debouncedQuery, codec, pager, api>>

\* First render and its effects (lines 59-81, 84, 87-89, 126-128)
Mount ==
    /\ mounted = "no"
    /\ LET s == readFromUrl(url, Config)
       IN  /\ page' = s.page
           /\ pageSize' = s.pageSize
           /\ query' = s.query
           /\ sort' = s.sort
           /\ filters' = s.filters
           /\ debouncedQuery' = s.query
           /\ timer' = Some(s.query)
           /\ url' = writeToUrl(s)
           /\ IssueFetch(s, s.query, reqs, TRUE)
    /\ mounted' = "yes"
    /\ last' = NoEvent
    /\ UNCHANGED <<rows, total, codec, pager, api>>

HookInit ==
    /\ url \in InitialUrls
    /\ mounted = "no"
    /\ page = 1 /\ pageSize = 10 /\ query = <<>> /\ sort = None /\ filters = <<>>
    /\ rows = <<>> /\ total = 0 /\ loading = FALSE /\ error = None
    /\ debouncedQuery = <<>> /\ timer = None
    /\ latest = 0 /\ reqs = <<>> /\ cleanup = None
    /\ last = NoEvent

Init == HookInit /\ codec = Idle /\ pager = Idle /\ api = Idle

-----------------------------------------------------------------------------
(* The hook's operations (lines 72-76, 130-143) *)

setPage(n) == Commit([State EXCEPT !.page = n], FALSE, "setPage")
setPageSize(n) == Commit([State EXCEPT !.pageSize = n], FALSE, "setPageSize")
\* setSort stores the object it is given: a new object is a new dependency
setSort(so) == Commit([State EXCEPT !.sort = so], IsSome(so) \/ IsSome(sort), "setSort")

setQueryKeepsPage(q) == Commit([State EXCEPT !.query = q], FALSE, "setQuery")
setQuery(q) == Commit([State EXCEPT !.query = q, !.page = 1], FALSE, "setQuery")

setFilter(k, v) ==
    Commit([State EXCEPT !.filters = ParamsSet(filters, k, v), !.page = 1],
           FALSE, "setFilter")

clearFilters == Commit([State EXCEPT !.filters = <<>>, !.page = 1], FALSE, "clearFilters")

\* refresh() called by the consumer: its returned abort is dropped
refresh ==
    /\ IssueFetch(State, debouncedQuery, reqs, FALSE)
    /\ last' = NoEvent
    /\ UNCHANGED <<url, mounted, page, pageSize, query, sort, filters, rows, total,
                   debouncedQuery, timer, codec, pager, api>>

-----------------------------------------------------------------------------
(* The controls of CustomersTable *)

\* e.target.value || undefined
OrUndefined(v) == IF v = <<>> THEN None ELSE Some(v)

Prev == mounted = "yes" /\ page # 1 /\ setPage(page - 1)
NextPage == mounted = "yes" /\ page # totalPages /\ setPage(page + 1)
PageButton ==
    /\ mounted = "yes"
    /\ LET bs == makePageButtons(page, totalPages, 7)
       IN  \E i \in 1..Len(bs) : bs[i] # Ellipsis /\ bs[i] # page /\ setPage(bs[i])
PageSizeSelect ==
    mounted = "yes" /\ \E n \in PageSizeOptions : setPageSize(parseInt(String(n)).val)
Search == mounted = "yes" /\ \E q \in QueryTexts : setQuery(q)
CompanySelect ==
    mounted = "yes" /\ \E v \in CompanyOptions : setFilter(S_company, OrUndefined(v))
ClearFiltersClick == mounted = "yes" /\ clearFilters
SortClick ==
    /\ mounted = "yes"
    /\ \E k \in Columns :
          setSort(IF IsSome(sort) /\ Get(sort).key = k
                  THEN SortOf(k, IF Get(sort).dir = S_asc THEN S_desc ELSE S_asc)
                  ELSE SortOf(k, S_asc))
\* The hook's API used directly
ClearSort == mounted = "yes" /\ setSort(None)
RefreshCall == mounted = "yes" /\ refresh

-----------------------------------------------------------------------------
(* Timers, responses, teardown *)

DebouncedChangedIgnored(v) == FALSE
\* setV(value) with another value re-renders with a new debouncedQuery, a
\* dependency of refresh (lines 84, 124)
DebouncedChanged(v) == v # debouncedQuery

\* setTimeout(() => setV(value), delay) fires (line 190)
TimerFire ==
    /\ mounted = "yes"
    /\ IsSome(timer)
    /\ timer' = None
    /\ debouncedQuery' = Get(timer)
    /\ IF DebouncedChanged(Get(timer))
       THEN IssueFetch(State, Get(timer), RunCleanup, TRUE)
       ELSE UNCHANGED <<latest, loading, error, reqs, cleanup>>
    /\ last' = NoEvent
    /\ UNCHANGED <<url, mounted, page, pageSize, query, sort, filters, rows, total,
                   codec, pager, api>>

\* ok: a 2xx response; fail: a non-2xx response or a transport failure, both a
\* rejection that is no AbortError; abort: the AbortError of an aborted signal
Outcomes == {"ok", "fail", "abort"}
Without(f, id) == [i \in DOMAIN f \ {id} |-> f[i]]
\* What the response of request id carries
Items(id) == <<[req |-> id, params |-> reqs[id].params]>>

\* The guard of lines 109, 116, 119
IsLatestAlways(id) == TRUE
IsLatest(id) == id = latest

\* The condition of line 116
SetsErrorWhenStale(id, outcome) == ~IsLatest(id) /\ outcome # "abort"
SetsError(id, outcome) == IsLatest(id) /\ outcome # "abort"

ClearsLoadingAlways(id) == TRUE
\* The condition of line 119
ClearsLoading(id) == IsLatest(id)

CompleteRetries(id, outcome, t) ==
    LET retry == mounted = "yes" /\ outcome = "fail" /\ IsLatest(id) /\ latest < RequestBound
    IN  /\ id \in DOMAIN reqs
        /\ outcome = "abort" => reqs[id].aborted
        /\ reqs' = IF retry
                   THEN (latest + 1) :> [reqs[id] EXCEPT !.aborted = FALSE] @@ Without(reqs, id)
                   ELSE Without(reqs, id)
        /\ latest' = IF retry THEN latest + 1 ELSE latest
        /\ last' = Event("complete", id, outcome, IF outcome = "ok" THEN t ELSE 0, FALSE)
        /\ IF mounted = "yes" /\ outcome = "ok" /\ IsLatest(id)
           THEN rows' = Items(id) /\ total' = t
           ELSE UNCHANGED <<rows, total>>
        /\ IF mounted = "yes" /\ outcome # "ok" /\ SetsError(id, outcome)
           THEN error' = Some("Error")
           ELSE UNCHANGED error
        /\ IF mounted = "yes" /\ ClearsLoading(id) /\ ~retry
           THEN loading' = FALSE
           ELSE UNCHANGED loading
        /\ UNCHANGED <<url, mounted, page, pageSize, query, sort, filters,
                       debouncedQuery, timer, cleanup, codec, pager, api>>
\* The promise chain of request id settles (lines 104-120) with the response's
\* total t. Only a fetch whose signal was aborted can reject with an
\* AbortError; aborting is advisory, so such a fetch may also still settle
\* with a response. State setters of a torn-down component do nothing.
Complete(id, outcome, t) ==
    /\ id \in DOMAIN reqs
    /\ outcome = "abort" => reqs[id].aborted
    /\ reqs' = Without(reqs, id)
    /\ last' = Event("complete", id, outcome, IF outcome = "ok" THEN t ELSE 0, FALSE)
    /\ IF mounted = "yes" /\ outcome = "ok" /\ IsLatest(id)
       THEN rows' = Items(id) /\ total' = t
       ELSE UNCHANGED <<rows, total>>
    /\ IF mounted = "yes" /\ outcome # "ok" /\ SetsError(id, outcome)
       THEN error' = Some("Error")
       ELSE UNCHANGED error
    /\ IF mounted = "yes" /\ ClearsLoading(id)
       THEN loading' = FALSE
       ELSE UNCHANGED loading
    /\ UNCHANGED <<url, mounted, page, pageSize, query, sort, filters,
                   debouncedQuery, timer, latest, cleanup, codec, pager, api>>
\* The request as the endpoint receives it (req.query)
ToReq(params) == [i \in 1..Len(params) |-> <<params[i][1], <<params[i][2]>>>>]
\* json.total of the mock endpoint for each search text and company filter the
\* controls can send; it is the same for every page, pageSize and sort
MockTotals ==
    [q \in QueryTexts, c \in CompanyOptions |->
        handler(ToReq(defaultParams(
            St(1, 1, q, None,
               IF c = <<>> THEN <<>> ELSE <<<<S_company, Some(c)>>>>)))).total]
MockTotal(params) ==
    MockTotals[GetOrEmpty(params, S_q), GetOrEmpty(params, FilterKey(S_company))]
ResponseTotals(id) ==
    IF api = MockEndpoint THEN {MockTotal(reqs[id].params)} ELSE Totals
Settle ==
    \E id \in DOMAIN reqs, o \in Outcomes :
       \E t \in ResponseTotals(id) : Complete(id, o, t)

\* The component is torn down: clearTimeout (line 191), ac.abort() (line 122)
Unmount ==
    /\ mounted = "yes"
    /\ mounted' = "gone"
    /\ timer' = None
    /\ reqs' = RunCleanup
    /\ last' = NoEvent
    /\ UNCHANGED <<url, page, pageSize, query, sort, filters, rows, total, loading,
                   error, debouncedQuery, latest, cleanup, codec, pager, api>>

Next ==
    \/ Mount
    \/ Prev
    \/ NextPage
    \/ PageButton
    \/ PageSizeSelect
    \/ Search
    \/ CompanySelect
    \/ ClearFiltersClick
    \/ SortClick
    \/ ClearSort
    \/ RefreshCall
    \/ TimerFire
    \/ Settle
    \/ Unmount

Spec == Init /\ [][Next]_vars

-----------------------------------------------------------------------------
(* Properties of the hook *)

\* The step just taken settled request last.id (state after the step)
Settled(e) == e.op = "complete"

\* C1: latest-wins. rows and total are written only when the request that
\* settles is the one issued last and it settles with a response, and then they
\* become that response's items and total. The response of a request A that
\* settles after a later request B was issued is never written, whichever of
\* the two settles first; so once both have settled with a response, rows and
\* total are those of B.
C1_LatestWins ==
    [][IF mounted = "yes" /\ Settled(last') /\ last'.outcome = "ok" /\ last'.id = latest
       THEN rows' = Items(last'.id) /\ total' = last'.total
       ELSE rows' = rows /\ total' = total]_vars
\* A settled with a response after B had been issued and had been applied:
\* rows are still B's.
C1_Witness ==
    /\ mounted = "yes"
    /\ Settled(last) /\ last.outcome = "ok" /\ last.id < latest
    /\ rows # <<>> /\ rows[1].req = latest
    /\ reqs = <<>>

\* C2: reset invariant. From a state with page > 1, setQuery, setFilter and
\* clearFilters each leave page = 1, and pageSize and sort as they were.
C2_ResetInvariant ==
    [][(last'.op \in ResetOps /\ page > 1)
       => (page' = 1 /\ pageSize' = pageSize /\ sort' = sort)]_vars
\* setQuery was called on a page past the first, and the page is now 1.
C2_Witness ==
    last.op = "setQuery" /\ last.paged /\ page = 1

\* C3: in every state of the mounted hook, page and pageSize are positive.
\* (Violated: parseInt of a negative number is truthy, so readFromUrl keeps it.)
C3_PositivePaging ==
    mounted = "yes" => (page >= 1 /\ pageSize >= 1)

\* C4: reloading reproduces the state. In every state of the mounted hook whose
\* filter values are all non-empty, decoding the address bar with the
\* component's configuration as the fallback gives the current state.
\* (Violated: an absent sort is not written, and decodes to the configured sort.)
NonEmptyFilters(f) == \A i \in 1..Len(f) : IsSome(f[i][2]) /\ Get(f[i][2]) # <<>>
C4_ReloadReproduces ==
    (mounted = "yes" /\ NonEmptyFilters(filters)) => readFromUrl(url, Config) = State

\* C9: failure handling. When the request issued last settles with a non-2xx
\* status or a transport failure, error becomes non-null and rows and total keep
\* their values; when a request settles with an AbortError, error is left as it
\* was, whether or not the request is the one issued last.
C9_FailureHandling ==
    [][Settled(last') =>
         /\ (mounted = "yes" /\ last'.outcome = "fail" /\ last'.id = latest)
               => (error' # None /\ rows' = rows /\ total' = total)
         /\ last'.outcome = "abort" => error' = error]_vars
\* The request issued last failed while rows from an earlier response are shown.
C9_Witness ==
    /\ mounted = "yes"
    /\ Settled(last) /\ last.outcome = "fail" /\ last.id = latest
    /\ error # None /\ rows # <<>> /\ rows[1].req < latest

-----------------------------------------------------------------------------
(* Properties of the hook: fetches, flags, debounce, address bar *)

\* The value of filter k: None when the key is absent or its value undefined
FilterValue(f, k) == IF IsSome(ParamsGet(f, k)) THEN Get(ParamsGet(f, k)) ELSE None
FilterKeys(f) == {f[i][1] : i \in 1..Len(f)}
FiltersDiffer(f, g) ==
    \E k \in FilterKeys(f) \cup FilterKeys(g) : FilterValue(f, k) # FilterValue(g, k)
\* The step issued a request; what it carries
Issues == latest' = latest + 1 /\ latest' \in DOMAIN reqs'
Carried == reqs'[latest'].params
QOf(params) == GetOrEmpty(params, S_q)
StaysMounted == mounted = "yes" /\ mounted' = "yes"

\* C11: a step of the mounted hook that changes page, pageSize, sort or a
\* filter value issues, in that step, a request carrying the new page,
\* pageSize, sort and filters. A step that changes the search text leaves the
\* debounced text alone, arms the timer with the new text, and a request it
\* issues carries the debounced text; the step in which the timer fires on a
\* text other than the debounced one issues a request carrying that text.
C11_FetchOnChange ==
    [][StaysMounted =>
         /\ (page' # page \/ pageSize' # pageSize \/ sort' # sort
                \/ FiltersDiffer(filters, filters'))
               => /\ Issues
                  /\ ParamsGet(Carried, S_page) = Some(String(page'))
                  /\ ParamsGet(Carried, S_pageSize) = Some(String(pageSize'))
                  /\ ParamsGet(Carried, S_sort)
                        = IF IsSome(sort')
                          THEN Some(Get(sort').key \o <<":">> \o Get(sort').dir)
                          ELSE None
                  /\ \A k \in FilterKeys(filters) \cup FilterKeys(filters') :
                        ParamsGet(Carried, FilterKey(k))
                           = IF FilterValue(filters', k) \in {None, Some(<<>>)}
                             THEN None ELSE FilterValue(filters', k)
         /\ query' # query
               => /\ debouncedQuery' = debouncedQuery
                  /\ timer' = Some(query')
                  /\ latest' # latest => (Issues /\ QOf(Carried) = debouncedQuery)
         /\ debouncedQuery' # debouncedQuery
               => /\ timer = Some(query) /\ query' = query
                  /\ Issues /\ QOf(Carried) = query]_vars
\* The first request carries the text of the mount; the text "a" was typed and
\* held, the timer fired, and the second request carries "a".
C11_Witness ==
    /\ mounted = "yes" /\ timer = None
    /\ query = <<"a">> /\ debouncedQuery = <<"a">>
    /\ DOMAIN reqs = {1, 2}
    /\ QOf(reqs[1].params) = <<>> /\ QOf(reqs[2].params) = <<"a">>

\* C13: cancellation. Every request in flight other than the one issued last
\* has had its abort signalled, and after teardown every request in flight
\* has; so at most one request in flight is not cancelled.
\* (Violated: the abort that the public refresh() returns is dropped, so the
\* request before it and the request it starts are never signalled.)
C13_Cancellation ==
    /\ \A id \in DOMAIN reqs : id # latest => reqs[id].aborted
    /\ mounted = "gone" => \A id \in DOMAIN reqs : reqs[id].aborted
    /\ Cardinality({id \in DOMAIN reqs : ~reqs[id].aborted}) <= 1

\* C14: loading and error flags. In every state of the mounted hook, loading
\* is true exactly when the request issued last is still in flight. A step
\* that issues a request leaves error null, and error is non-null after a
\* step only if it was already so and no request was issued, or the step is
\* the request issued last settling with a failure that is no AbortError.
InFlight(id) == id \in DOMAIN reqs
C14_LoadingAndError ==
    /\ [](mounted = "yes" => (loading <=> InFlight(latest)))
    /\ [][StaysMounted =>
            /\ latest' # latest => error' = None
            /\ error' # None =>
                 \/ error' = error /\ latest' = latest
                 \/ Settled(last') /\ last'.id = latest /\ last'.outcome = "fail"]_vars
\* The request issued last has failed while an earlier one is still in flight:
\* loading is off and error is set.
C14_Witness ==
    /\ mounted = "yes"
    /\ Settled(last) /\ last.id = latest /\ last.outcome = "fail"
    /\ ~loading /\ error # None
    /\ reqs # <<>>

\* C15: request ids and stale completions. A step issues a request exactly
\* when it increases the counter, by one, and the request gets the new counter
\* value as its id, which no request in flight has; a completion, of any
\* outcome, of a request that is not the one issued last leaves rows, total,
\* error and loading unchanged.
C15_IdsAndStaleCompletions ==
    [][/\ latest' # latest => (latest' = latest + 1 /\ ~InFlight(latest'))
       /\ DOMAIN reqs' \ DOMAIN reqs = IF latest' # latest THEN {latest'} ELSE {}
       /\ \A id \in DOMAIN reqs' : id <= latest'
       /\ (Settled(last') /\ last'.id # latest)
             => (rows' = rows /\ total' = total /\ error' = error /\ loading' = loading)]_vars
\* A cancelled request settled with an AbortError after a later one was
\* issued, and the later one is still loading.
C15_Witness ==
    /\ mounted = "yes"
    /\ Settled(last) /\ last.id < latest /\ last.outcome = "abort"
    /\ loading /\ InFlight(latest) /\ error = None

\* C17: URL mirror. In every state of the mounted hook the address-bar query
\* string has each key once; page and pageSize with the current values; q,
\* with the input text (not the debounced one), exactly when the text is
\* non-empty; sort as key:direction exactly when a sort is present;
\* filters[name] with the filter's value exactly for the filters whose value is
\* neither absent nor empty; and no other key.
UrlKeys == {url[i][1] : i \in 1..Len(url)}
C17_UrlMirror ==
    mounted = "yes" =>
      /\ Cardinality(UrlKeys) = Len(url)
      /\ ParamsGet(url, S_page) = Some(String(page))
      /\ ParamsGet(url, S_pageSize) = Some(String(pageSize))
      /\ ParamsGet(url, S_q) = IF query # <<>> THEN Some(query) ELSE None
      /\ ParamsGet(url, S_sort)
            = IF IsSome(sort) THEN Some(Get(sort).key \o <<":">> \o Get(sort).dir) ELSE None
      /\ \A k \in FilterKeys(filters) :
            ParamsGet(url, FilterKey(k))
               = IF FilterValue(filters, k) \in {None, Some(<<>>)}
                 THEN None ELSE FilterValue(filters, k)
      /\ UrlKeys \subseteq {S_page, S_pageSize, S_q, S_sort}
                              \cup {FilterKey(k) : k \in FilterKeys(filters)}
\* The input text "a" is in the address bar before the debounce has fired,
\* and neither the absent sort nor the filter without a value is.
C17_Witness ==
    /\ mounted = "yes"
    /\ query = <<"a">> /\ debouncedQuery = <<>> /\ ParamsGet(url, S_q) = Some(<<"a">>)
    /\ sort = None /\ ParamsGet(url, S_sort) = None
    /\ filters = <<<<S_company, None>>>> /\ Len(url) = 3

\* C18: no automatic retry. The settling of a request, with a response or an
\* error, issues no request: the counter stays and the requests in flight are
\* those before less the settled one. A timeout that fires on the text that is
\* already the debounced one issues none either. So once the request issued
\* last has failed and no new text is pending, no step other than an
\* operation of the user (refresh, a change of page, pageSize, query, sort or a
\* filter) can issue a request.
IssuesByItself == (Settle \/ TimerFire) /\ latest' # latest
C18_NoRetry ==
    /\ [][/\ Settled(last') => (latest' = latest /\ reqs' = Without(reqs, last'.id))
          /\ (StaysMounted /\ timer' # timer /\ debouncedQuery' = debouncedQuery
                 /\ query' = query)
                => latest' = latest]_vars
    /\ []((mounted = "yes" /\ error # None /\ (IsSome(timer) => Get(timer) = debouncedQuery))
            => ~ENABLED IssuesByItself)
\* The request issued last has failed, nothing is in flight and no timeout is
\* pending.
C18_Witness ==
    /\ mounted = "yes"
    /\ Settled(last) /\ last.id = latest /\ last.outcome = "fail"
    /\ error # None /\ ~loading
    /\ reqs = <<>> /\ timer = None /\ latest < MaxRequests

-----------------------------------------------------------------------------
(* The hook under fair scheduling: SpecFair *)

\* React runs the first render and its effects, a pending timeout fires, and
\* a fetch in flight settles.
Fairness == WF_vars(Mount) /\ WF_vars(TimerFire) /\ WF_vars(Settle)
\* The page is opened with no query string, on page 2, or with a search
\* text, a sort and a filter
FairUrls ==
    {u \in InitialUrls : u = <<>> \/ u = UrlWith(S_page, <<"2">>) \/ Len(u) > 1}
InitFair == Init /\ url \in FairUrls
SpecFair == InitFair /\ [][Next]_vars /\ Fairness

\* The timer is due with a new text but the model's bound on requests is reached
RequestBoundReached ==
    latest = MaxRequests /\ IsSome(timer) /\ Get(timer) # debouncedQuery
NeverTornDown == [](mounted # "gone")

\* C16: trailing debounce. After the first render, which starts it as the
\* input, the debounced text changes only in the step in which the timer fires, and then to the input text the timer was armed with
\* and that the input has held since; a pending timer is always the one armed
\* with the current input, so a replaced input has none; every request issued
\* carries the debounced text as q; and if from some point on the input no
\* longer changes (and the hook stays mounted), then from some point on the
\* debounced text equals it (short of the model's bound on requests).
C16_TrailingDebounce ==
    /\ [](IsSome(timer) => timer = Some(query))
    /\ [][/\ (mounted = "yes" /\ debouncedQuery' # debouncedQuery)
               => (timer = Some(query) /\ timer' = None
                     /\ query' = query /\ debouncedQuery' = query)
          /\ Issues => QOf(Carried) = debouncedQuery']_vars
    /\ (<>[][query' = query]_vars /\ NeverTornDown)
          => <>[](debouncedQuery = query \/ RequestBoundReached)
\* "a" has been typed and the timer is pending: the debounced text is still
\* "", and the request issued last carries no q.
C16_Witness ==
    /\ mounted = "yes" /\ timer = Some(<<"a">>)
    /\ query = <<"a">> /\ debouncedQuery = <<>>
    /\ latest = 2 /\ InFlight(2)
    /\ ParamsGet(reqs[2].params, S_q) = None

\* An operation of the user on the mounted hook
UserStep ==
    \/ Prev \/ NextPage \/ PageButton \/ PageSizeSelect \/ Search \/ CompanySelect
    \/ ClearFiltersClick \/ SortClick \/ ClearSort \/ RefreshCall
UserStops == <>[][~UserStep]_vars
\* No step is the request issued last settling with a failure
LatestNeverFails ==
    [](~(Settled(last) /\ last.id = latest /\ last.outcome = "fail"))
\* Nothing is loading, there is no error, and rows are the response to a request
\* for exactly the current page, pageSize, search text, sort and filters
Converged ==
    /\ mounted = "yes" /\ ~loading /\ error = None
    /\ ~InFlight(latest)
    /\ rows = <<[req |-> latest, params |-> defaultParams(State)]>>

\* C19: convergence. If from some point on the user performs no operation, the
\* hook stays mounted and the request issued last never settles with a
\* failure, then from some point on loading is false, error is null and rows
\* and total are the response to the request for the current page, pageSize,
\* search text, sort and filters (short of the model's bound on requests).
C19_Convergence ==
    (UserStops /\ NeverTornDown /\ LatestNeverFails)
       => <>[](Converged \/ RequestBoundReached)
\* The text "a" was typed, the timeout fired, and the response to the second
\* request, for the text "a", is shown.
C19_Witness ==
    /\ Converged /\ latest = 2
    /\ query = <<"a">> /\ QOf(rows[1].params) = <<"a">>
    /\ timer = None /\ reqs = <<>>

-----------------------------------------------------------------------------
(* CustomersTable on the mock endpoint, operated by its controls: SpecControls *)

InitControls ==
    /\ HookInit /\ url = <<>>
    /\ codec = Idle /\ pager = Idle /\ api = MockEndpoint
NextControls ==
    \/ Mount
    \/ Prev
    \/ NextPage
    \/ PageButton
    \/ PageSizeSelect
    \/ Search
    \/ CompanySelect
    \/ ClearFiltersClick
    \/ SortClick
    \/ TimerFire
    \/ Settle
    \/ Unmount
SpecControls == InitControls /\ [][NextControls]_vars

\* The response of the request issued last has been applied
LatestApplied ==
    /\ mounted = "yes" /\ ~loading /\ error = None
    /\ rows # <<>> /\ rows[1].req = latest

\* C20: page stays within range. Opened on page 1 and operated by the table's
\* controls only, whenever the response of the request issued last has been
\* applied, page <= totalPages.
\* (Violated: the page-size select keeps the page, which may lie past the new
\* last page.)
C20_PageInRange ==
    LatestApplied => page <= totalPages

-----------------------------------------------------------------------------
(* The mock endpoint under requests: SpecApi *)

\* In the specifications of the pure functions and the endpoint the hook is
\* not mounted and stays so.
HookOff ==
    /\ url = <<>> /\ mounted = "off"
    /\ page = 1 /\ pageSize = 10 /\ query = <<>> /\ sort = None /\ filters = <<>>
    /\ rows = <<>> /\ total = 0 /\ loading = FALSE /\ error = None
    /\ debouncedQuery = <<>> /\ timer = None
    /\ latest = 0 /\ reqs = <<>> /\ cleanup = None
    /\ last = NoEvent

\* One parameter of a request: absent (<<>>), or the texts given for the key
Absent == <<>>
One(t) == <<t>>
ReqOf(kvs) == SelectSeq(kvs, LAMBDA e : e[2] # Absent)
S_from == S_createdAt \o <<"F", "r", "o", "m">>
S_to   == S_createdAt \o <<"T", "o">>

\* page and pageSize parameters: missing, empty, non-numeric, zero, negative,
\* numeric with a tail, repeated, above 100
PageParams == {Absent, One(<<>>), One(<<"a", "b", "c">>), One(<<"0">>), One(<<"-", "2">>),
               One(<<"1">>), One(<<"3">>), One(<<"2", "x">>), <<<<"2">>, <<"9">>>>}
SizeParams == {Absent, One(<<>>), One(<<"x">>), One(<<"0">>), One(<<"-", "1">>),
               One(<<"1", "0">>), One(<<"1", "0", "0">>), One(<<"1", "0", "1">>),
               One(<<"7">>)}
ParamRequests ==
    {ReqOf(<<<<S_page, p>>, <<S_pageSize, z>>>>) : p \in PageParams, z \in SizeParams}

\* search texts and filters
QParams == {Absent, One(toLowerCase(S_Analytica)), One(<<"U", "S", "E", "R", " ", "4", "9">>),
            One(<<"r", "5", "0", "@">>), One(<<"z", "z">>)}
StatusParams == {Absent, One(<<>>), One(S_active), One(<<"A", "c", "t", "i", "v", "e">>)}
CompanyParams == {Absent, One(S_Epsilon)}
RangeParams == {<<Absent, Absent>>, <<One(<<"0", "9", "0", "0">>), One(<<"0", "9", "5", "0">>)>>,
                <<One(<<"0", "9", "9">>), Absent>>}
FilterRequests ==
    {ReqOf(<<<<S_page, One(<<"1">>)>>, <<S_pageSize, One(<<"1", "0">>)>>, <<S_q, q>>,
             <<FilterKey(S_status), st>>, <<FilterKey(S_company), co>>,
             <<FilterKey(S_from), rg[1]>>, <<FilterKey(S_to), rg[2]>>>>) :
       q \in QParams, st \in StatusParams, co \in CompanyParams, rg \in RangeParams}

\* sorted listings that a client pages through from page 1
SortParams == {Absent, One(S_name \o <<":">> \o S_asc), One(S_status \o <<":">> \o S_desc),
               One(S_company), One(<<"f", "o", "o", ":">> \o S_desc),
               One(S_createdAt \o <<":">> \o S_asc)}
WalkRequests ==
    {ReqOf(<<<<S_page, One(<<"1">>)>>, <<S_pageSize, One(<<"3", "0">>)>>,
             <<S_sort, so>>, <<FilterKey(S_company), One(S_Epsilon)>>>>) : so \in SortParams}
    \cup {ReqOf(<<<<S_page, One(<<"1">>)>>, <<S_pageSize, One(<<"1", "0", "0">>)>>,
                  <<S_sort, so>>>>) : so \in {Absent, One(S_company \o <<":">> \o S_desc)}}

\* the request with another page parameter
WithPage(rq, n) ==
    ParamsSet(rq, S_page, One(String(n)))

ApiInit ==
    /\ HookOff /\ codec = Idle /\ pager = Idle
    /\ \/ \E r \in ParamRequests \cup FilterRequests :
             api = [rq |-> r, resp |-> None, walk |-> FALSE, seen |-> <<>>]
       \/ \E r \in WalkRequests :
             api = [rq |-> r, resp |-> None, walk |-> TRUE, seen |-> <<>>]

\* The endpoint answers the request
Handle ==
    /\ api.resp = None
    /\ LET r == handler(api.rq)
       IN  api' = [api EXCEPT !.resp = Some(r), !.seen = api.seen \o r.items]
    /\ UNCHANGED <<hookVars, codec, pager>>

\* pages of a response: ceil(total / pageSize)
PagesOf(r) == (r.total + r.pageSize.val - 1) \div r.pageSize.val

\* The client asks for the following page of the same listing
NextRequest ==
    /\ api.walk
    /\ IsSome(api.resp)
    /\ ~Get(api.resp).page.nan /\ ~Get(api.resp).pageSize.nan
    /\ Get(api.resp).page.val < PagesOf(Get(api.resp))
    /\ api' = [api EXCEPT !.rq = WithPage(api.rq, Get(api.resp).page.val + 1),
                          !.resp = None]
    /\ UNCHANGED <<hookVars, codec, pager>>

ApiNext == Handle \/ NextRequest
SpecApi == ApiInit /\ [][ApiNext]_vars

-----------------------------------------------------------------------------
(* Properties of the mock endpoint *)

\* The text a request gives for a parameter ('' when it gives none)
TextOf(rq, k) == qval(ReqGet(rq, k), <<>>)
\* Row k (a position in ROWS) matches the request's search text and filters
Matches(k, rq) ==
    LET r  == ROWS[k]
        q  == toLowerCase(TextOf(rq, S_q))
    IN  /\ q # <<>> => \E t \in {r.name, r.email, r.company} : includes(toLowerCase(t), q)
        /\ TextOf(rq, FilterKey(S_status)) # <<>> => r.status = TextOf(rq, FilterKey(S_status))
        /\ TextOf(rq, FilterKey(S_company)) # <<>> => r.company = TextOf(rq, FilterKey(S_company))
        /\ TextOf(rq, FilterKey(S_from)) # <<>>
              => ~StrLess(r.createdAt, TextOf(rq, FilterKey(S_from)))
        /\ TextOf(rq, FilterKey(S_to)) # <<>>
              => ~StrLess(TextOf(rq, FilterKey(S_to)), r.createdAt)
Matching(rq) == {k \in 1..N : Matches(k, rq)}

ActiveRequest ==
    <<<<S_page, One(<<"1">>)>>, <<S_pageSize, One(<<"1", "0">>)>>,
      <<FilterKey(S_status), One(S_active)>>>>
AnalyticaRequest ==
    <<<<S_page, One(<<"1">>)>>, <<S_pageSize, One(<<"1", "0">>)>>,
      <<S_q, One(toLowerCase(S_Analytica))>>>>

\* C7: every returned item matches the search text and every supplied filter,
\* and total is the number of rows of the whole set that match, whatever page
\* and pageSize are; status=active with page 1 and pageSize 10 gives 10 items
\* and the count of all active rows; q=analytica gives rows of Analytica only.
C7_FilterAndTotal ==
    IsSome(api.resp) =>
        LET r == Get(api.resp)
            m == Matching(api.rq)
        IN  /\ \A i \in 1..Len(r.items) : r.items[i] \in m
            /\ r.total = Cardinality(m)
            /\ api.rq = ActiveRequest =>
                  /\ Len(r.items) = 10
                  /\ \A i \in 1..10 : ROWS[r.items[i]].status = S_active
                  /\ r.total = Cardinality({k \in 1..N : ROWS[k].status = S_active})
                  /\ r.total > 10
            /\ api.rq = AnalyticaRequest =>
                  /\ r.items # <<>>
                  /\ \A i \in 1..Len(r.items) : ROWS[r.items[i]].company = S_Analytica
C7_Witness ==
    /\ IsSome(api.resp)
    /\ api.rq = ActiveRequest
    /\ Len(Get(api.resp).items) = 10
    /\ Get(api.resp).total = 167

\* C8: whatever the page and pageSize parameters are, the page the endpoint
\* reports is an integer >= 1 (1 when missing), the pageSize an integer in
\* [1,100] (10 when missing), and there are at most pageSize items.
\* (Violated: Math.max(1, NaN) is NaN for an empty or non-numeric parameter.)
C8_ParameterBounds ==
    IsSome(api.resp) =>
        LET r == Get(api.resp)
        IN  /\ ~r.page.nan /\ r.page.val >= 1
            /\ ReqGet(api.rq, S_page) = Absent => r.page = Num(1)
            /\ ~r.pageSize.nan /\ r.pageSize.val \in 1..100
            /\ ReqGet(api.rq, S_pageSize) = Absent => r.pageSize = Num(10)
            /\ Len(r.items) <= r.pageSize.val

\* The requested sort field and whether the direction is descending
SortField(rq) == split(TextOf(rq, S_sort))[1]
SortDesc(rq) == At(split(TextOf(rq, S_sort)), 1) = Some(S_desc)
\* Row j comes before row i in the listing: by the field in the direction, rows
\* that do not differ in the field (or have none) in input order
Before(j, i, rq) ==
    LET a == Field(ROWS[j], SortField(rq))
        b == Field(ROWS[i], SortField(rq))
    IN  IF TextOf(rq, S_sort) # <<>> /\ IsSome(a) /\ IsSome(b) /\ a # b
        THEN IF SortDesc(rq) THEN StrLess(Get(b), Get(a)) ELSE StrLess(Get(a), Get(b))
        ELSE j < i

\* C10: search and filters, then sort, then pagination. The items of page p are
\* the positions (p-1)*pageSize .. p*pageSize-1 of the whole matching set in
\* the requested order (input order without a sort field); a client that has
\* paged from 1 to ceil(total/pageSize) has seen every matching row once.
C10_StageOrder ==
    (IsSome(api.resp) /\ ~Get(api.resp).page.nan /\ ~Get(api.resp).pageSize.nan) =>
        LET r     == Get(api.resp)
            m     == Matching(api.rq)
            start == (r.page.val - 1) * r.pageSize.val
        IN  /\ Len(r.items) = Max(0, Min(r.pageSize.val, Cardinality(m) - start))
            /\ \A i \in 1..Len(r.items) :
                  /\ r.items[i] \in m
                  /\ Cardinality({j \in m : Before(j, r.items[i], api.rq)}) = start + i - 1
            /\ (api.walk /\ r.page.val >= PagesOf(r)) =>
                  /\ Len(api.seen) = Cardinality(m)
                  /\ {api.seen[i] : i \in 1..Len(api.seen)} = m
\* A client has paged through a filtered listing sorted in descending order
\* whose rows tie in the sort field, up to its last, partly filled page.
C10_Witness ==
    /\ IsSome(api.resp) /\ api.walk
    /\ TextOf(api.rq, S_sort) = S_status \o <<":">> \o S_desc
    /\ Get(api.resp).page = Num(4)
    /\ Len(Get(api.resp).items) = 10
    /\ Len(api.seen) = 100

-----------------------------------------------------------------------------
(* The codec on its own: SpecCodec *)

\* Valid table states: page >= 1, pageSize >= 1, any query, a sort that is
\* absent or a key with asc or desc, filters with non-empty string values
CodecSorts ==
    {None} \cup {SortOf(k, d) : k \in {S_name, <<>>, <<"a", ":", "b">>}, d \in {S_asc, S_desc}}
CodecFilters ==
    {<<>>,
     <<<<S_status, Some(S_active)>>>>,
     <<<<S_company, Some(S_DeltaLabs)>>, <<S_status, Some(S_trial)>>>>,
     <<<<<<"a", "]", "[">>, Some(<<"0">>)>>>>}
CodecStates ==
    {St(pg, ps, qu, so, fl) :
        pg \in {1, 2, 12}, ps \in {1, 10},
        qu \in {<<>>, <<"a">>, <<"a", " ", ":", "b">>},
        so \in CodecSorts, fl \in CodecFilters}

CodecInit ==
    /\ HookOff /\ pager = Idle /\ api = Idle
    /\ \E s \in CodecStates : codec = [s |-> s, enc |-> None, out |-> None]

\* encode: defaultParams(s)
Encode ==
    /\ codec.enc = None
    /\ codec' = [codec EXCEPT !.enc = Some(defaultParams(codec.s))]
    /\ UNCHANGED <<hookVars, pager, api>>
\* decode with s as the fallback: readFromUrl
Decode ==
    /\ IsSome(codec.enc) /\ codec.out = None
    /\ codec' = [codec EXCEPT !.out = Some(readFromUrl(Get(codec.enc), codec.s))]
    /\ UNCHANGED <<hookVars, pager, api>>

CodecNext == Encode \/ Decode
SpecCodec == CodecInit /\ [][CodecNext]_vars

\* C5: round-trip law. Decoding the encoding of a valid state s, with s as the
\* fallback, gives s field by field.
\* (Violated: a sort key that contains ':' is cut at its first ':'.)
C5_RoundTrip ==
    IsSome(codec.out) => Get(codec.out) = codec.s

-----------------------------------------------------------------------------
(* makePageButtons on its own: SpecPager *)

MaxPages == 10      \* bound on the number of pages
MaxButtons == 7     \* bound on max

PagerInit ==
    /\ HookOff /\ codec = Idle /\ api = Idle
    /\ \E t \in 1..MaxPages, m \in 1..MaxButtons :
          \E c \in 1..t : pager = [curr |-> c, tot |-> t, max |-> m, out |-> None]

Buttons ==
    /\ pager.out = None
    /\ pager' = [pager EXCEPT !.out = Some(makePageButtons(pager.curr, pager.tot, pager.max))]
    /\ UNCHANGED <<hookVars, codec, api>>

PagerNext == Buttons
SpecPager == PagerInit /\ [][PagerNext]_vars

\* C6: makePageButtons(curr, total, max) with 1 <= curr <= total and max >= 1.
\* If total <= max the result is 1..total. Otherwise it starts with 1, ends with
\* total, lists pages in strictly increasing order, lists exactly 1, total and
\* the pages of curr-1..curr+1 that exist, has one ellipsis between listed
\* pages that differ by more than one and none between pages that differ by
\* one, and has no two equal adjacent entries. (1,3,7), (5,10,7) and (1,1,7)
\* give [1,2,3], [1,...,4,5,6,...,10] and [1].
C6_PageButtons ==
    IsSome(pager.out) =>
        LET o    == Get(pager.out)
            c    == pager.curr
            t    == pager.tot
            nums == SelectSeq(o, LAMBDA x : x # Ellipsis)
        IN  /\ t <= pager.max => o = [i \in 1..t |-> i]
            /\ t > pager.max =>
                  /\ o[1] = 1 /\ o[Len(o)] = t
                  /\ \A i \in 1..(Len(nums) - 1) : nums[i] < nums[i + 1]
                  /\ {nums[i] : i \in 1..Len(nums)} = ({c - 1, c, c + 1} \cap (1..t)) \cup {1, t}
                  /\ \A i \in 1..(Len(o) - 1) :
                        /\ o[i] # o[i + 1]
                        /\ (o[i] # Ellipsis /\ o[i + 1] # Ellipsis) => o[i + 1] = o[i] + 1
                        /\ o[i] = Ellipsis =>
                              /\ i > 1
                              /\ o[i - 1] # Ellipsis /\ o[i + 1] # Ellipsis
                              /\ o[i + 1] - o[i - 1] > 1
            /\ (c = 1 /\ t = 3 /\ pager.max = 7) => o = <<1, 2, 3>>
            /\ (c = 5 /\ t = 10 /\ pager.max = 7)
                  => o = <<1, Ellipsis, 4, 5, 6, Ellipsis, 10>>
            /\ (c = 1 /\ t = 1 /\ pager.max = 7) => o = <<1>>
\* The compacted pager of page 5 of 10
C6_Witness ==
    /\ pager.curr = 5 /\ pager.tot = 10 /\ pager.max = 7
    /\ pager.out = Some(<<1, Ellipsis, 4, 5, 6, Ellipsis, 10>>)

-----------------------------------------------------------------------------
(* readFromUrl on arbitrary query strings: SpecUrl *)

\* Query strings: each of page, pageSize, q, sort absent or with a text, up to
\* two filters[...] entries, other keys
UrlPages == {Absent, One(<<>>), One(<<"a", "b">>), One(<<"3">>), One(<<"-", "x">>)}
UrlSizes == {Absent, One(<<"x">>), One(<<"2", "0">>)}
UrlTexts == {Absent, One(<<>>), One(<<"a">>)}
UrlSorts == {Absent, One(S_name), One(S_name \o <<":">>), One(S_name \o <<":">> \o S_desc),
             One(<<":">> \o S_desc)}
UrlFilterEntries ==
    {<<>>,
     <<<<FilterKey(S_status), S_active>>>>,
     <<<<FilterKey(S_status), S_active>>, <<FilterKey(S_company), S_Epsilon>>>>,
     <<<<FilterKey(S_status), S_active>>, <<FilterKey(S_status), S_trial>>>>}
UrlOthers == {<<>>, <<<<<<"u">>, <<"1">>>>, <<<<"f", "i", "l", "t", "e", "r", "s">>, <<"z">>>>>>}
\* the entries of the parameters that are present
UrlEntries(kvs) ==
    LET ps == SelectSeq(kvs, LAMBDA e : e[2] # Absent)
    IN  [i \in 1..Len(ps) |-> <<ps[i][1], ps[i][2][1]>>]
UrlQueries ==
    {UrlEntries(<<<<S_page, p>>, <<S_pageSize, z>>, <<S_q, t>>, <<S_sort, so>>>>) \o oth \o fe :
        p \in UrlPages, z \in UrlSizes, t \in UrlTexts, so \in UrlSorts,
        fe \in UrlFilterEntries, oth \in UrlOthers}
Fallbacks ==
    {Config, St(2, 20, <<"x">>, None, <<<<S_status, Some(S_trial)>>>>)}

UrlInit ==
    /\ HookOff /\ pager = Idle /\ api = Idle
    /\ \E q \in UrlQueries, fb \in Fallbacks : codec = [q |-> q, fb |-> fb, out |-> None]
\* readFromUrl(fallback) with the query string in the address bar
ReadUrl ==
    /\ codec.out = None
    /\ codec' = [codec EXCEPT !.out = Some(readFromUrl(codec.q, codec.fb))]
    /\ UNCHANGED <<hookVars, pager, api>>
UrlNext == ReadUrl
SpecUrl == UrlInit /\ [][UrlNext]_vars

\* A text that does not start, after blanks and a sign, with a digit
RECURSIVE Unblank(_)
Unblank(t) == IF t # <<>> /\ t[1] = " " THEN Unblank(Tail(t)) ELSE t
Unsigned(t) == IF t # <<>> /\ t[1] = "-" THEN Tail(t) ELSE t
NonNumeric(t) ==
    LET u == Unsigned(Unblank(t)) IN u = <<>> \/ u[1] \notin {Digits[i] : i \in 1..10}
Present(q, k) == \E i \in 1..Len(q) : q[i][1] = k
ValuesOf(q, k) == SelectSeq(q, LAMBDA e : e[1] = k)
FirstOf(q, k) == ValuesOf(q, k)[1][2]
LastOf(q, k) == ValuesOf(q, k)[Len(ValuesOf(q, k))][2]
ColonAt(t) == {i \in 1..Len(t) : t[i] = ":"}
FilterNames == {S_status, S_company}
KnownKeys == {S_page, S_pageSize, S_q, S_sort} \cup {FilterKey(n) : n \in FilterNames}
Known(q) == SelectSeq(q, LAMBDA e : e[1] \in KnownKeys)

====
